---- MODULE Spec2Model ----
(***************************************************************************)
(* Model of models/a.py of inver-synth: the audio loader, the architecture *)
(* assembler, the train/validation split, compile, fit, predict and the    *)
(* __main__ script that chains them.                                       *)
(*                                                                         *)
(* Arrays are modelled by their shapes (sequences of axis sizes); a        *)
(* dataset array whose rows matter (x_train, y_train, ...) is the sequence *)
(* of its example indices.  Python values of mixed type (what os.getenv or *)
(* a module attribute can hold) are records [type, v].                     *)
(***************************************************************************)
EXTENDS Integers, Sequences, FiniteSets, TLC

\* ------------------------------------------------------------- bounds
MaxSamples == 6
MaxFileChunks == 5
MaxLayers == 2
MaxArr == 2
MaxEpochs == 2
MaxBatch == 2

\* ------------------------------------------------- program constants
default_sr == 16384
main_duration == 1
n_dft == 128
n_hop == 64
default_batch_size == 16
main_epochs == 1
dense_units == 512
predictions_units == 368
main_n_test == 1

\* ------------------------------------------------------ small helpers
Min(a, b) == IF a < b THEN a ELSE b
Max(a, b) == IF a > b THEN a ELSE b
CeilDiv(a, b) == (a + b - 1) \div b
Range(s) == {s[i] : i \in DOMAIN s}
Last(s) == s[Len(s)]

\* Python values
PyStr(s) == [type |-> "str", v |-> s]
PyTrue == [type |-> "bool", v |-> "True"]
PyFunction(name) == [type |-> "function", v |-> name]
\* == between Python objects: objects of different types are never equal
PyEq(a, b) == a.type = b.type /\ a.v = b.v
\* truth value of an object in an `if`
Truthy(val) ==
    IF val.type = "bool" THEN val.v = "True"
    ELSE IF val.type = "str" THEN val.v # ""
    ELSE TRUE

\* Python slicing of a sequence: s[i:] and s[:j], negative indices count
\* from the end, out-of-range indices are clamped
PyIndex(i, n) == IF i < 0 THEN Max(i + n, 0) ELSE Min(i, n)
SliceFrom(s, i) == SubSeq(s, PyIndex(i, Len(s)) + 1, Len(s))
SliceTo(s, j) == SubSeq(s, 1, PyIndex(j, Len(s)))
\* [e] * n for the example indices 1..n
Examples(n) == [i \in 1..n |-> i]

VARIABLES
    entry,              \* which callable of the module the caller runs
    pc,                 \* position in the run
    failed,             \* the stage whose exception ended the run, or "none"
    trace,              \* the stages that have run, in order
    environ,            \* process environment: set of <<name, value>>
    image_data_format,  \* the layout the keras backend is configured with
    engine,             \* when the installed keras examines fit's data
    audio_file,         \* [len, sr_native]: the decoded file behind `path`
    load_args,          \* [sr, duration] given to input_raw_audio
    y_audio,            \* shape of the loaded waveform, <<>> before loading
    sample_rate,        \* the rate input_raw_audio returned
    arch_layers,        \* the ArchLayer list given to assemble_model
    src_shape,          \* shape of assemble_model's src
    model,              \* [layers, output_shape, compiled, fitted]
    counts,             \* [assemble, compile, fit]: calls made so far
    n_samples,
    x_train, y_train, x_val, y_val,
    fit_args,           \* [batch_size, epochs]
    history,            \* history.history of the running/finished model.fit
    updates,            \* gradient-update steps performed
    fit_ret,            \* what fit returned: <<>> or <<"model">>
    n_test,             \* leading dimension of predict's x
    result,             \* [status, shape, branch] of predict
    outputs             \* [saved, new_audio, written]

envVars == <<entry, environ, image_data_format, engine, audio_file, load_args,
             arch_layers, fit_args, n_test, n_samples>>
loadVars == <<y_audio, sample_rate>>
modelVars == <<src_shape, model, counts>>
dataVars == <<x_train, y_train, x_val, y_val>>
fitVars == <<history, updates, fit_ret>>
postVars == <<result, outputs>>
vars == <<pc, failed, trace, envVars, loadVars, modelVars, dataVars, fitVars,
          postVars>>

\* ---------------------------------------------------- input_raw_audio
None == 0
\* librosa.load(path, sr, duration): read at most duration seconds of the
\* file at its native rate, then resample to sr unless sr is None
FramesRead(file, duration) == Min(file.len, duration * file.sr_native)
Resample(n, orig_sr, target_sr) ==
    IF orig_sr = target_sr THEN n ELSE CeilDiv(n * target_sr, orig_sr)
LoadUntruncated(file, sr, duration) ==
    IF sr = None THEN file.len ELSE Resample(file.len, file.sr_native, sr)
LibrosaLoad(file, sr, duration) ==
    IF sr = None THEN FramesRead(file, duration)
    ELSE Resample(FramesRead(file, duration), file.sr_native, sr)
ReturnedRate(file, sr) == IF sr = None THEN file.sr_native ELSE sr

\* ----------------------------------------------------- assemble_model
ArchLayer(filters, window_size, strides, activation) ==
    [filters |-> filters, window_size |-> window_size, strides |-> strides,
     activation |-> activation]
\* c1 of the script: C(38,13,26,13,26), relu by default
c1 == ArchLayer(38, <<13, 26>>, <<13, 26>>, "relu")
c1_layers == <<c1>>

Layer(kind, n, window, strides, activation, name) ==
    [kind |-> kind, n |-> n, window |-> window, strides |-> strides,
     activation |-> activation, name |-> name]
InputLayer == Layer("Input", 0, <<>>, <<>>, "", "stft")
SpectrogramLayer == Layer("Spectrogram", n_dft, <<>>, <<n_hop>>, "", "static_stft")
Conv2D(a) == Layer("Conv2D", a.filters, a.window_size, a.strides, a.activation, "")
Dense(units, activation, name) == Layer("Dense", units, <<>>, <<>>, activation, name)

\* kapre Spectrogram, channels_first: (n_channel, n_freq, n_time), 'same' padding
SpectrogramShape(src) == <<src[1], n_dft \div 2 + 1, CeilDiv(src[2], n_hop)>>
\* Conv2D, channels_first, 'valid' padding; a window larger than the input
\* makes the shape computation fail
Conv2DFits(shape, a) ==
    /\ a.window_size[1] <= shape[2]
    /\ a.window_size[2] <= shape[3]
Conv2DShape(shape, a) ==
    <<a.filters,
      (shape[2] - a.window_size[1]) \div a.strides[1] + 1,
      (shape[3] - a.window_size[2]) \div a.strides[2] + 1>>
DenseShape(shape, units) == [shape EXCEPT ![Len(shape)] = units]

\* the loop `for arch_layer in arch_layers: x = Conv2D(...)(x)`, from the
\* state st = [ok, layers, shape] reached before arch_layers[i]
RECURSIVE ConvLoop(_, _, _)
ConvLoop(st, layer_list, i) ==
    IF i > Len(layer_list) \/ ~st.ok THEN st
    ELSE IF ~Conv2DFits(st.shape, layer_list[i])
         THEN [st EXCEPT !.ok = FALSE]
         ELSE ConvLoop([ok |-> TRUE,
                        layers |-> Append(st.layers, Conv2D(layer_list[i])),
                        shape |-> Conv2DShape(st.shape, layer_list[i])],
                       layer_list, i + 1)
\* a loop that stops one layer short
ConvStackDropLast(st, layer_list) ==
    ConvLoop(st, SubSeq(layer_list, 1, Len(layer_list) - 1), 1)
ConvStack(st, layer_list) == ConvLoop(st, layer_list, 1)

AssembleModel(src, layer_list) ==
    LET x0 == [ok |-> TRUE,
               layers |-> <<InputLayer, SpectrogramLayer>>,
               shape |-> SpectrogramShape(src)]
        x1 == ConvStack(x0, layer_list)
        x2 == DenseShape(x1.shape, dense_units)
        out == DenseShape(x2, predictions_units)
    IN  IF ~x1.ok THEN [ok |-> FALSE, layers |-> <<>>, output_shape |-> <<>>]
        ELSE [ok |-> TRUE,
              layers |-> x1.layers \o <<Dense(dense_units, "linear", ""),
                                        Dense(predictions_units, "sigmoid",
                                              "predictions")>>,
              output_shape |-> out]

NoModel == [layers |-> <<>>, output_shape |-> <<>>, compiled |-> FALSE,
            fitted |-> FALSE]

\* ------------------------------------------------------------ __main__
\* the statements of the script, in source order
ScriptOrder == <<"load", "assemble", "split", "compile", "fit", "gate",
                 "save", "predict", "reconstruct", "write">>
FitBeforeCompile == <<"load", "assemble", "split", "fit", "compile", "gate",
                      "save", "predict", "reconstruct", "write">>
Successor(order, s) ==
    LET i == CHOOSE k \in 1..Len(order) : order[k] = s
    IN  IF i = Len(order) THEN "done" ELSE order[i + 1]
NextStageFitFirst(s) == Successor(FitBeforeCompile, s)
NextStage(s) == Successor(ScriptOrder, s)
\* an exception nobody catches ends the run
SwallowException(s) == NextStage(s)
OnException(s) == "aborted"

\* os.getenv(name, default)
getenv(name, default) ==
    IF \E p \in environ : p[1] = name
    THEN PyStr((CHOOSE p \in environ : p[1] = name)[2])
    ELSE default

\* int(n_samples * .2); the double product truncates to floor(n/5) for the
\* sizes modelled
ValidationSlice(n) == (n * 2) \div 10

Started(stage) == trace' = Append(trace, stage)
Return(stage) ==
    /\ pc' = IF entry = "main" THEN NextStage(stage) ELSE "done"
    /\ failed' = failed
Raise(stage) ==
    /\ pc' = OnException(stage)
    /\ failed' = stage

\* ---------------------------------------------------------- the inputs
Entries == {"main", "input_raw_audio", "assemble_model", "fit", "predict"}
EntryPoint(e) ==
    CASE e = "main" -> "load"
      [] e = "input_raw_audio" -> "load"
      [] e = "assemble_model" -> "assemble"
      [] e = "fit" -> "fit"
      [] e = "predict" -> "predict"
Layouts == {"channels_first", "channels_last"}
\* "eager": model.fit examines the validation arrays before the first
\* batch and iterates over an empty training set; "lazy": it examines them
\* when the first epoch ends and refuses an empty training set
Engines == {"eager", "lazy"}
FlagValues == {"", "0", "false", "1"}
Environs == {{}} \cup {{<<"EXPERIMENTATION", v>>} : v \in FlagValues}
FileLens == {i * (default_sr \div 4) : i \in 0..MaxFileChunks}
NativeRates == {default_sr \div 2, default_sr, 44100}
AudioFiles == [len : FileLens, sr_native : NativeRates]
ArchPool == {c1,
             ArchLayer(4, <<3, 3>>, <<2, 2>>, "relu"),
             ArchLayer(8, <<5, 3>>, <<1, 2>>, "tanh")}
ArchLists == UNION {[1..n -> ArchPool] : n \in 0..MaxLayers}
SrcShapes == {<<1, 1024>>, <<1, 4096>>, <<1, default_sr>>}
\* models handed to a direct call of fit or predict
GivenModels ==
    {[layers |-> m.layers, output_shape |-> m.output_shape,
      compiled |-> TRUE, fitted |-> f] :
        m \in {AssembleModel(<<1, default_sr>>, c1_layers),
               AssembleModel(<<1, 4096>>, <<>>)},
        f \in BOOLEAN}

Init ==
    /\ entry \in Entries
    /\ pc = EntryPoint(entry)
    /\ failed = "none"
    /\ trace = <<>>
    /\ environ \in (IF entry = "main" THEN Environs ELSE {{}})
    /\ image_data_format \in
         (IF entry \in {"main", "predict"} THEN Layouts ELSE {"channels_last"})
    /\ engine \in (IF entry \in {"main", "fit"} THEN Engines ELSE {"eager"})
    /\ audio_file \in
         (IF entry \in {"main", "input_raw_audio"} THEN AudioFiles
          ELSE {[len |-> default_sr, sr_native |-> default_sr]})
    /\ load_args \in
         (IF entry = "input_raw_audio"
          THEN [sr : {None, default_sr \div 2, default_sr}, duration : 1..2]
          ELSE {[sr |-> default_sr, duration |-> main_duration]})
    /\ y_audio = <<>>
    /\ sample_rate = None
    /\ arch_layers \in (IF entry = "assemble_model" THEN ArchLists ELSE {c1_layers})
    /\ src_shape \in (IF entry = "assemble_model" THEN SrcShapes ELSE {<<>>})
    /\ model \in (IF entry \in {"fit", "predict"} THEN GivenModels ELSE {NoModel})
    /\ counts = [assemble |-> 0, compile |-> 0, fit |-> 0]
    /\ n_samples \in (IF entry = "main" THEN 0..MaxSamples ELSE {0})
    /\ x_train \in (IF entry = "fit" THEN {Examples(n) : n \in 0..MaxArr} ELSE {<<>>})
    /\ y_train \in (IF entry = "fit" THEN {Examples(n) : n \in 0..MaxArr} ELSE {<<>>})
    /\ x_val \in (IF entry = "fit" THEN {Examples(n) : n \in 0..MaxArr} ELSE {<<>>})
    /\ y_val \in (IF entry = "fit" THEN {Examples(n) : n \in 0..MaxArr} ELSE {<<>>})
    /\ fit_args \in
         (IF entry = "fit"
          THEN [batch_size : {1, default_batch_size}, epochs : 0..MaxEpochs]
          ELSE {[batch_size |-> default_batch_size, epochs |-> main_epochs]})
    /\ history = <<>>
    /\ updates = 0
    /\ fit_ret = <<>>
    /\ n_test \in (IF entry = "predict" THEN 0..MaxBatch ELSE {main_n_test})
    /\ result = [status |-> "none", shape |-> <<>>, branch |-> "none"]
    /\ outputs = [saved |-> FALSE, new_audio |-> FALSE, written |-> FALSE]

\* ---------------------------------------------------------- the stages
\* input_raw_audio(path, sr, duration), lines 27-33 / 151
Load ==
    /\ pc = "load"
    /\ Started("load")
    /\ \E ok \in BOOLEAN :
         IF ok
         THEN /\ y_audio' = <<LibrosaLoad(audio_file, load_args.sr,
                                          load_args.duration)>>
              /\ sample_rate' = ReturnedRate(audio_file, load_args.sr)
              /\ Return("load")
         ELSE /\ Raise("load")
              /\ UNCHANGED loadVars
    /\ UNCHANGED <<envVars, modelVars, dataVars, fitVars, postVars>>

\* input_2d = np.expand_dims(y_audio, axis=0); assemble_model(input_2d, ...)
Assemble ==
    /\ pc = "assemble"
    /\ Started("assemble")
    /\ LET src == IF entry = "main" THEN <<1>> \o y_audio ELSE src_shape
           m == AssembleModel(src, arch_layers)
       IN  /\ src_shape' = src
           /\ counts' = [counts EXCEPT !.assemble = @ + 1]
           /\ \E ok \in BOOLEAN :
                IF ok /\ m.ok
                THEN /\ model' = [layers |-> m.layers,
                                  output_shape |-> m.output_shape,
                                  compiled |-> FALSE, fitted |-> FALSE]
                     /\ Return("assemble")
                ELSE /\ model' = model
                     /\ Raise("assemble")
    /\ UNCHANGED <<envVars, loadVars, dataVars, fitVars, postVars>>

\* lines 167-177: build the dataset and reserve the tail for validation
Split ==
    /\ pc = "split"
    /\ Started("split")
    /\ LET x == Examples(n_samples)
           y == Examples(n_samples)
           slice == ValidationSlice(n_samples)
       IN  /\ x_val' = SliceFrom(x, -slice)
           /\ y_val' = SliceFrom(y, -slice)
           /\ x_train' = SliceTo(x, -slice)
           /\ y_train' = SliceTo(y, -slice)
    /\ Return("split")
    /\ UNCHANGED <<envVars, loadVars, modelVars, fitVars, postVars>>

\* summarize_compile(model)
Compile ==
    /\ pc = "compile"
    /\ Started("compile")
    /\ counts' = [counts EXCEPT !.compile = @ + 1]
    /\ \E ok \in BOOLEAN :
         IF ok
         THEN /\ model' = [model EXCEPT !.compiled = TRUE]
              /\ Return("compile")
         ELSE /\ model' = model
              /\ Raise("compile")
    /\ UNCHANGED <<src_shape, envVars, loadVars, dataVars, fitVars, postVars>>

\* ------------------------------------------------------------------ fit
\* what model.fit does with the arrays it is handed; fit itself checks
\* nothing before the call
RejectsAtStart(xt, yt, xv, yv) ==
    \/ Len(xt) # Len(yt)
    \/ engine = "eager" /\ Len(xv) # Len(yv)
    \/ engine = "lazy" /\ Len(xt) = 0
RejectsAtEpochEnd(xv, yv) ==
    engine = "lazy" /\ (Len(xv) # Len(yv) \/ Len(xv) = 0)
\* one gradient-update step per mini-batch, the last batch may be smaller
StepsPerEpoch(n, batch_size) == CeilDiv(n, batch_size)
\* the logs of one epoch: which losses were recorded
EpochLogs(xt, xv) ==
    [loss |-> Len(xt) > 0, val_loss |-> Len(xt) > 0 /\ Len(xv) > 0]
\* model.fit is called without callbacks: it runs all the epochs asked for
StopsAfterFirstEpoch(h, epochs) == Len(h) >= Min(epochs, 1)
TrainingDone(h, epochs) == Len(h) = epochs
\* `return model`
FitReturnValue == <<"model">>

FitBegin ==
    /\ pc = "fit"
    /\ Started("fit")
    /\ counts' = [counts EXCEPT !.fit = @ + 1]
    /\ history' = <<>>
    /\ updates' = 0
    /\ fit_ret' = fit_ret
    /\ \E ok \in BOOLEAN :
         IF ok /\ model.compiled /\ ~RejectsAtStart(x_train, y_train, x_val, y_val)
         THEN pc' = "fit_epoch" /\ failed' = failed
         ELSE Raise("fit")
    /\ UNCHANGED <<src_shape, model, envVars, loadVars, dataVars, postVars>>

FitEpoch ==
    /\ pc = "fit_epoch"
    /\ ~TrainingDone(history, fit_args.epochs)
    /\ updates' = updates + StepsPerEpoch(Len(x_train), fit_args.batch_size)
    /\ IF ~RejectsAtEpochEnd(x_val, y_val)
       THEN /\ history' = Append(history, EpochLogs(x_train, x_val))
            /\ pc' = pc
            /\ failed' = failed
       ELSE /\ history' = history
            /\ Raise("fit")
    /\ UNCHANGED <<trace, fit_ret, envVars, loadVars, modelVars, dataVars,
                   postVars>>

FitReturn ==
    /\ pc = "fit_epoch"
    /\ TrainingDone(history, fit_args.epochs)
    /\ model' = [model EXCEPT !.fitted = TRUE]
    /\ fit_ret' = FitReturnValue
    /\ Return("fit")
    /\ UNCHANGED <<trace, src_shape, counts, history, updates, envVars,
                   loadVars, dataVars, postVars>>

\* ------------------------------------------------- the TEMP block, 188-199
\* if os.getenv('EXPERIMENTATION', True):
Gate ==
    /\ pc = "gate"
    /\ Started("gate")
    /\ IF Truthy(getenv("EXPERIMENTATION", PyTrue))
       THEN Return("gate")
       ELSE pc' = "done" /\ failed' = failed
    /\ UNCHANGED <<envVars, loadVars, modelVars, dataVars, fitVars, postVars>>

\* model.save('models/saved/dx7_sample.h5')
Save ==
    /\ pc = "save"
    /\ Started("save")
    /\ \E ok \in BOOLEAN :
         IF ok
         THEN /\ outputs' = [outputs EXCEPT !.saved = TRUE]
              /\ Return("save")
         ELSE /\ outputs' = outputs
              /\ Raise("save")
    /\ UNCHANGED <<result, envVars, loadVars, modelVars, dataVars, fitVars>>

\* numpy indexing by shape: result[0, 0] and result[0, :, :, 0]
CanIndex_0_0(shape) == Len(shape) >= 2 /\ shape[1] >= 1 /\ shape[2] >= 1
Index_0_0(shape) == SubSeq(shape, 3, Len(shape))
CanIndex_0_x_x_0(shape) == Len(shape) >= 4 /\ shape[1] >= 1 /\ shape[4] >= 1
Index_0_x_x_0(shape) == <<shape[2], shape[3]>> \o SubSeq(shape, 5, Len(shape))
\* keras.backend.image_data_format == 'channels_first': the attribute is
\* the accessor function, which the line compares without calling it
is_channels_first ==
    PyEq(PyFunction("keras.backend.image_data_format"), PyStr("channels_first"))

\* predict(model, x, logam)
Predict ==
    /\ pc = "predict"
    /\ Started("predict")
    /\ LET out == <<n_test>> \o model.output_shape
           can == IF is_channels_first THEN CanIndex_0_0(out)
                  ELSE CanIndex_0_x_x_0(out)
       IN  \E ok \in BOOLEAN :
             IF ok /\ n_test >= 1 /\ can
             THEN /\ result' =
                       [status |-> "returned",
                        shape |-> IF is_channels_first THEN Index_0_0(out)
                                  ELSE Index_0_x_x_0(out),
                        branch |-> IF is_channels_first THEN "[0, 0]"
                                   ELSE "[0, :, :, 0]"]
                  /\ Return("predict")
             ELSE /\ result' = [result EXCEPT !.status = "raised"]
                  /\ Raise("predict")
    /\ UNCHANGED <<outputs, envVars, loadVars, modelVars, dataVars, fitVars>>

\* new_audio = stft_to_audio(result)
Reconstruct ==
    /\ pc = "reconstruct"
    /\ Started("reconstruct")
    /\ \E ok \in BOOLEAN :
         IF ok /\ Len(result.shape) = 2
         THEN /\ outputs' = [outputs EXCEPT !.new_audio = TRUE]
              /\ Return("reconstruct")
         ELSE /\ outputs' = outputs
              /\ Raise("reconstruct")
    /\ UNCHANGED <<result, envVars, loadVars, modelVars, dataVars, fitVars>>

\* sf.write('audio/outputs/new_audio.wav', new_audio, sample_rate)
Write ==
    /\ pc = "write"
    /\ Started("write")
    /\ \E ok \in BOOLEAN :
         IF ok
         THEN /\ outputs' = [outputs EXCEPT !.written = TRUE]
              /\ Return("write")
         ELSE /\ outputs' = outputs
              /\ Raise("write")
    /\ UNCHANGED <<result, envVars, loadVars, modelVars, dataVars, fitVars>>

Next ==
    \/ Load
    \/ Assemble
    \/ Split
    \/ Compile
    \/ FitBegin
    \/ FitEpoch
    \/ FitReturn
    \/ Gate
    \/ Save
    \/ Predict
    \/ Reconstruct
    \/ Write

Spec == Init /\ [][Next]_vars

\* ============================================================ claims
Ran(stage) == stage \in Range(trace)
FlagSet == \E p \in environ : p[1] = "EXPERIMENTATION"
FlagValue == (CHOOSE p \in environ : p[1] = "EXPERIMENTATION")[2]

\* C1: after the split of N examples with k = floor(N * 0.2), training has
\* the first N-k examples, validation the last k, and they share none;
\* also when k = 0.
C1_SplitSizes ==
    Ran("split") =>
        LET k == n_samples \div 5
        IN  /\ Len(x_train) = n_samples - k
            /\ Len(x_val) = k
            /\ Range(x_train) \cap Range(x_val) = {}
            /\ x_train \o x_val = Examples(n_samples)

\* C2: predict takes result[0, 0] when the layout is channels_first and
\* result[0, :, :, 0] otherwise, and what it returns is 2D.
C2_LayoutSelectsBranch ==
    result.status = "returned" =>
        /\ result.branch = IF image_data_format = "channels_first"
                           THEN "[0, 0]" ELSE "[0, :, :, 0]"
        /\ Len(result.shape) = 2

C4_ExactLength ==
    y_audio # <<>> => y_audio[1] = sample_rate * load_args.duration
\* C4 (amended): the loaded waveform has at most R * D samples (R the
\* returned rate); exactly R * D when the file holds at least D seconds;
\* a shorter file is returned whole at rate R, without padding.
C4_TruncatesNeverPads ==
    y_audio # <<>> =>
        LET D == load_args.duration
            native == audio_file.sr_native
        IN  /\ y_audio[1] <= sample_rate * D
            /\ (audio_file.len >= D * native => y_audio[1] = sample_rate * D)
            /\ (audio_file.len < D * native =>
                   /\ y_audio[1] * native >= audio_file.len * sample_rate
                   /\ y_audio[1] * native < audio_file.len * sample_rate + native)
C4_Witness ==
    /\ y_audio # <<>>
    /\ audio_file.len > 0
    /\ audio_file.len < load_args.duration * audio_file.sr_native
    /\ sample_rate # audio_file.sr_native
    /\ y_audio[1] < sample_rate * load_args.duration
C4_WitnessTruncated ==
    /\ y_audio # <<>>
    /\ audio_file.len > load_args.duration * audio_file.sr_native
    /\ sample_rate # audio_file.sr_native
    /\ y_audio[1] = sample_rate * load_args.duration

\* C5: EXPERIMENTATION gates the post-training stage: with the flag true
\* or unset a run that ends normally has saved, predicted, reconstructed
\* and written; with the flag set to a false value none of the four runs.
FalseValues == {"", "0", "false"}
C5_FlagGates ==
    entry = "main" =>
        /\ (FlagSet /\ FlagValue \in FalseValues =>
               /\ ~Ran("save") /\ ~Ran("predict")
               /\ ~Ran("reconstruct") /\ ~Ran("write"))
        /\ (pc = "done" /\ (~FlagSet \/ FlagValue \notin FalseValues) =>
               /\ outputs.saved /\ result.status = "returned"
               /\ outputs.new_audio /\ outputs.written)

\* C6: predict returns an array only for a batch of exactly one example;
\* with any other leading dimension it fails.
C6_RejectsBatches ==
    /\ (result.status = "returned" => n_test = 1)
    /\ (Ran("predict") /\ n_test # 1 => failed = "predict")

\* C7: when the leading dimensions of a pair disagree, or the validation
\* set is empty with epochs > 0, fit ends in an error and has made no
\* gradient-update step.
InvalidFitData ==
    \/ Len(x_train) # Len(y_train)
    \/ Len(x_val) # Len(y_val)
    \/ (Len(x_val) = 0 /\ fit_args.epochs > 0)
C7_ValidatesBeforeTraining ==
    Ran("fit") /\ pc # "fit_epoch" /\ InvalidFitData =>
        failed = "fit" /\ updates = 0

\* C8: for a non-empty list of layer specs that fit the input, the model is
\* input, spectral transform, one convolution per spec in list order with
\* that spec's filters, window, stride and activation, a dense layer of 512
\* units and a dense output of 368 units; the output's last axis is 368.
C8_LayerSequence ==
    counts.assemble > 0 /\ model.layers # <<>> /\ arch_layers # <<>> =>
        LET L == model.layers
            n == Len(arch_layers)
        IN  /\ Len(L) = n + 4
            /\ L[1].kind = "Input"
            /\ L[2].kind = "Spectrogram"
            /\ \A i \in 1..n :
                 /\ L[2 + i].kind = "Conv2D"
                 /\ L[2 + i].n = arch_layers[i].filters
                 /\ L[2 + i].window = arch_layers[i].window_size
                 /\ L[2 + i].strides = arch_layers[i].strides
                 /\ L[2 + i].activation = arch_layers[i].activation
            /\ Cardinality({i \in 1..Len(L) : L[i].kind = "Conv2D"}) = n
            /\ L[n + 3].kind = "Dense" /\ L[n + 3].n = 512
            /\ L[n + 4].kind = "Dense" /\ L[n + 4].n = 368
            /\ Last(model.output_shape) = 368
C8_Witness ==
    /\ entry = "assemble_model"
    /\ model.layers # <<>>
    /\ Len(arch_layers) = 2
    /\ arch_layers[1] # arch_layers[2]
    /\ Len(model.layers) = 6

\* C9: in a run of the script the stages run in the order load, assemble,
\* compile, fit, save, predict, reconstruct, write; the model is assembled
\* once and compiled once before fit, and save and predict only see a model
\* that is compiled and fitted.
Lifecycle == <<"load", "assemble", "compile", "fit", "save", "predict",
               "reconstruct", "write">>
IsLifecycle(s) == s \in Range(Lifecycle)
C9_LifecycleOrder ==
    entry = "main" =>
        LET life == SelectSeq(trace, IsLifecycle)
        IN  /\ life = SubSeq(Lifecycle, 1, Len(life))
            /\ counts.assemble <= 1 /\ counts.compile <= 1 /\ counts.fit <= 1
            /\ (Ran("fit") => counts.assemble = 1 /\ counts.compile = 1)
            /\ (Ran("save") \/ Ran("predict") =>
                    model.compiled /\ model.fitted /\ fit_ret # <<>>)
C9_Witness ==
    /\ entry = "main"
    /\ pc = "done"
    /\ outputs.written
    /\ SelectSeq(trace, IsLifecycle) = Lifecycle

\* C10: a stage that fails is not retried and ends the run: it is the last
\* stage that ran, nothing is saved or written after a failed load,
\* assemble, compile or fit, and nothing is written after a failed predict
\* or reconstruct.
C10_FailureEndsRun ==
    /\ \A i, j \in 1..Len(trace) : trace[i] = trace[j] => i = j
    /\ failed # "none" =>
        /\ pc = "aborted"
        /\ Last(trace) = failed
        /\ (failed \in {"load", "assemble", "compile", "fit"} =>
                ~outputs.saved /\ ~outputs.written)
        /\ (failed \in {"predict", "reconstruct"} => ~outputs.written)
C10_Witness ==
    /\ entry = "main"
    /\ failed = "predict"
    /\ outputs.saved
    /\ ~outputs.written

====
